---- MODULE Spec2Model ----
(***************************************************************************)
(* Model of the i18n resolution engine: i18n-loader/src/lib.rs             *)
(* (Locales, Locale, Query, Message, AttrCache) on top of the pattern      *)
(* formatting contract of fluent_bundle and the tag parsing of unic_langid.*)
(***************************************************************************)
EXTENDS Integers, Sequences, FiniteSets, TLC

(***************************************************************************)
(* Option<T> and Result<T, E>                                              *)
(***************************************************************************)
None == <<>>
Some(x) == <<x>>
IsSome(o) == o # <<>>

Ok(v) == [tag |-> "Ok", val |-> v]
Err(e) == [tag |-> "Err", val |-> e]
IsOk(r) == r.tag = "Ok"
IsErr(r) == r.tag = "Err"

(***************************************************************************)
(* Bounds of the model                                                     *)
(***************************************************************************)
\* longest `resources` vector handed to one add_locale call
MaxResources == 2
\* number of AttrCache::query calls followed on one retained handle
MaxHandleCalls == 2
\* number of threads that query the loaded registry concurrently
NumReaders == 2

(***************************************************************************)
(* unic_langid: parsing and canonicalisation of language identifiers.      *)
(* A tag string is a sequence of one-character strings.                    *)
(***************************************************************************)
LowerChars == <<"a","b","c","d","e","f","g","h","i","j","k","l","m",
                "n","o","p","q","r","s","t","u","v","w","x","y","z">>
UpperChars == <<"A","B","C","D","E","F","G","H","I","J","K","L","M",
                "N","O","P","Q","R","S","T","U","V","W","X","Y","Z">>

IsAlpha(c) == \E i \in 1..26 : LowerChars[i] = c \/ UpperChars[i] = c
ToLower(c) == IF \E i \in 1..26 : UpperChars[i] = c
              THEN LowerChars[CHOOSE i \in 1..26 : UpperChars[i] = c] ELSE c
ToUpper(c) == IF \E i \in 1..26 : LowerChars[i] = c
              THEN UpperChars[CHOOSE i \in 1..26 : LowerChars[i] = c] ELSE c

RECURSIVE MapLower(_)
MapLower(cs) == IF cs = <<>> THEN "" ELSE ToLower(Head(cs)) \o MapLower(Tail(cs))
RECURSIVE MapUpper(_)
MapUpper(cs) == IF cs = <<>> THEN "" ELSE ToUpper(Head(cs)) \o MapUpper(Tail(cs))

IsSeparator(c) == c = "-" \/ c = "_"

\* the subtags of a tag string, split at '-' or '_'
RECURSIVE SplitSubtags(_, _)
SplitSubtags(cs, cur) ==
    IF cs = <<>> THEN <<cur>>
    ELSE IF IsSeparator(Head(cs)) THEN <<cur>> \o SplitSubtags(Tail(cs), <<>>)
    ELSE SplitSubtags(Tail(cs), Append(cur, Head(cs)))

AllAlpha(cs) == \A i \in 1..Len(cs) : IsAlpha(cs[i])
IsLanguageSubtag(cs) == Len(cs) \in {2, 3, 5, 6, 7, 8} /\ AllAlpha(cs)
IsRegionSubtag(cs) == Len(cs) = 2 /\ AllAlpha(cs)

\* a LanguageIdentifier: lower-cased language, optional upper-cased region
LanguageIdentifier(language, region) == [language |-> language, region |-> region]

\* the characters of a subtag joined as they are written
RECURSIVE JoinChars(_)
JoinChars(cs) == IF cs = <<>> THEN "" ELSE Head(cs) \o JoinChars(Tail(cs))

\* ParseLangid keeping the letter case of the subtags as written
ParseLangidKeepsCase(str) ==
    LET subtags == SplitSubtags(str, <<>>) IN
    IF ~IsLanguageSubtag(subtags[1]) THEN Err("InvalidLanguage")
    ELSE IF Len(subtags) = 1
         THEN Ok(LanguageIdentifier(JoinChars(subtags[1]), None))
    ELSE IF Len(subtags) = 2 /\ IsRegionSubtag(subtags[2])
         THEN Ok(LanguageIdentifier(JoinChars(subtags[1]), Some(JoinChars(subtags[2]))))
    ELSE Err("InvalidSubtag")

\* str.parse::<LanguageIdentifier>(): Ok(langid) or Err (language [-region] tags)
ParseLangid(str) ==
    LET subtags == SplitSubtags(str, <<>>) IN
    IF ~IsLanguageSubtag(subtags[1]) THEN Err("InvalidLanguage")
    ELSE IF Len(subtags) = 1
         THEN Ok(LanguageIdentifier(MapLower(subtags[1]), None))
    ELSE IF Len(subtags) = 2 /\ IsRegionSubtag(subtags[2])
         THEN Ok(LanguageIdentifier(MapLower(subtags[1]), Some(MapUpper(subtags[2]))))
    ELSE Err("InvalidSubtag")

(***************************************************************************)
(* fluent_bundle: patterns, entries, errors                                *)
(***************************************************************************)
Text(s) == [k |-> "text", s |-> s]
VarRef(id) == [k |-> "var", s |-> id]
MsgRef(id) == [k |-> "msg", s |-> id]
TermRef(id) == [k |-> "term", s |-> id]

Attribute(id, pattern) == [id |-> id, value |-> pattern]
MessageEntry(id, value, attributes) ==
    [id |-> id, kind |-> "message", value |-> value, attributes |-> attributes]
TermEntry(id, pattern) ==
    [id |-> id, kind |-> "term", value |-> Some(pattern), attributes |-> <<>>]

\* FluentError::ResolverError(ResolverError::Reference(ReferenceKind::..))
RefVariable(id) == [kind |-> "Variable", id |-> id, attribute |-> None]
RefMessage(id, attribute) == [kind |-> "Message", id |-> id, attribute |-> attribute]
RefTerm(id) == [kind |-> "Term", id |-> id, attribute |-> None]
\* FluentError::ResolverError(ResolverError::Cyclic / NoValue)
CyclicError == [kind |-> "Cyclic", id |-> "", attribute |-> None]
NoValueError(id) == [kind |-> "NoValue", id |-> id, attribute |-> None]

\* Unicode isolation marks U+2068 / U+2069 written around a placeable
FSI == "<U+2068>"
PDI == "<U+2069>"

\* FluentArgs: a map from argument names to values
NoArgs == [n \in {} |-> ""]

\* FluentBundle::get_message
GetMessage(bundle, id) ==
    IF id \in DOMAIN bundle.entries /\ bundle.entries[id].kind = "message"
    THEN Some(bundle.entries[id]) ELSE None

\* FluentBundle::get_term (through a term reference)
GetTerm(bundle, id) ==
    IF id \in DOMAIN bundle.entries /\ bundle.entries[id].kind = "term"
    THEN Some(bundle.entries[id]) ELSE None

\* Pattern::write: elements i.. of pattern, args : Option<FluentArgs>,
\* travelled : the patterns on the resolution stack (cycle detection)
RECURSIVE WritePattern(_, _, _, _, _)
WritePattern(bundle, pattern, i, args, travelled) ==
    IF i > Len(pattern) THEN [out |-> "", errs |-> <<>>]
    ELSE
    LET el == pattern[i]
        isolate == Len(pattern) > 1 /\ el.k = "var"
        one ==
          CASE el.k = "text" -> [out |-> el.s, errs |-> <<>>]
            [] el.k = "var" ->
                 IF IsSome(args) /\ el.s \in DOMAIN args[1]
                 THEN [out |-> args[1][el.s], errs |-> <<>>]
                 ELSE [out |-> "{$" \o el.s \o "}", errs |-> <<RefVariable(el.s)>>]
            [] el.k = "msg" ->
                 LET m == GetMessage(bundle, el.s) IN
                 IF m = None
                 THEN [out |-> "{" \o el.s \o "}", errs |-> <<RefMessage(el.s, None)>>]
                 ELSE IF m[1].value = None
                 THEN [out |-> "{" \o el.s \o "}", errs |-> <<NoValueError(el.s)>>]
                 ELSE IF m[1].value[1] \in travelled
                 THEN [out |-> "{" \o el.s \o "}", errs |-> <<CyclicError>>]
                 ELSE WritePattern(bundle, m[1].value[1], 1, args,
                                   travelled \cup {m[1].value[1]})
            [] el.k = "term" ->
                 LET t == GetTerm(bundle, el.s) IN
                 IF t = None
                 THEN [out |-> "{-" \o el.s \o "}", errs |-> <<RefTerm(el.s)>>]
                 ELSE IF t[1].value[1] \in travelled
                 THEN [out |-> "{-" \o el.s \o "}", errs |-> <<CyclicError>>]
                 ELSE WritePattern(bundle, t[1].value[1], 1, Some(NoArgs),
                                   travelled \cup {t[1].value[1]})
        rest == WritePattern(bundle, pattern, i + 1, args, travelled)
    IN [out |-> (IF isolate THEN FSI \o one.out \o PDI ELSE one.out) \o rest.out,
        errs |-> one.errs \o rest.errs]

\* FluentBundle::format_pattern(pattern, args, &mut errors): the string and
\* the errors it appends
FormatPattern(bundle, pattern, args) ==
    WritePattern(bundle, pattern, 1, args, {pattern})

\* FluentBundle::add_resource: every entry whose id is vacant is inserted,
\* every occupied id is reported as an Overriding error
RECURSIVE AddResource(_, _, _)
AddResource(bundle, resource, i) ==
    IF i > Len(resource) THEN [bundle |-> bundle, errs |-> <<>>]
    ELSE
    LET e == resource[i]
        occupied == e.id \in DOMAIN bundle.entries
        next == IF occupied THEN bundle
                ELSE [bundle EXCEPT !.entries = (e.id :> e) @@ bundle.entries]
        rest == AddResource(next, resource, i + 1)
    IN [bundle |-> rest.bundle,
        errs |-> (IF occupied THEN <<[kind |-> "Overriding", id |-> e.id]>> ELSE <<>>)
                 \o rest.errs]

\* FluentBundle::new_concurrent(vec![lang])
NewBundle(lang) == [locales |-> <<lang>>, entries |-> [id \in {} |-> id]]

(***************************************************************************)
(* Locale                                                                  *)
(***************************************************************************)
\* the `for resource in resources` loop of Locale::new: the bundle and all
\* Overriding errors reported by add_resource
RECURSIVE AddResources(_, _, _)
AddResources(bundle, resources, i) ==
    IF i > Len(resources) THEN [bundle |-> bundle, errs |-> <<>>]
    ELSE LET r == AddResource(bundle, resources[i], 1)
             rest == AddResources(r.bundle, resources, i + 1)
         IN [bundle |-> rest.bundle, errs |-> r.errs \o rest.errs]

\* LocaleNew dropping the errors of add_resource instead of panicking on them
LocaleNewIgnoresOverriding(lang, resources) ==
    Ok([bundle |-> AddResources(NewBundle(lang), resources, 1).bundle])

\* Locale::new: Ok(Locale), or Err when the `expect` on add_resource panics
LocaleNew(lang, resources) ==
    LET r == AddResources(NewBundle(lang), resources, 1) IN
    IF r.errs # <<>> THEN Err("resource should never be overriding another")
    ELSE Ok([bundle |-> r.bundle])

\* struct AttrCache
AttrCache(entry_id, attr_id, value, bundle) ==
    [entry_id |-> entry_id, attr_id |-> attr_id, value |-> value, bundle |-> bundle]

\* struct Query and its builder
QueryNew(id) == [id |-> id, args |-> NoArgs, attr_args |-> [a \in {} |-> NoArgs],
                 with_fallback |-> FALSE]
WithArg(q, id, value) == [q EXCEPT !.args = (id :> value) @@ q.args]
WithAttrArg(q, attr, id, value) ==
    LET old == IF attr \in DOMAIN q.attr_args THEN q.attr_args[attr] ELSE NoArgs
    IN [q EXCEPT !.attr_args = (attr :> ((id :> value) @@ old)) @@ q.attr_args]
WithFallback(q, enable_fallback) == [q EXCEPT !.with_fallback = enable_fallback]

\* does the error list hold only ReferenceKind::Variable errors
OnlyMissingAttrArgs(errs) == \A i \in 1..Len(errs) : errs[i].kind = "Variable"

\* ResolveAttr with the deferred branch caching the string it formatted
\* although formatting reported errors
ResolveAttrCachesDeferred(self, query, attr) ==
    IF attr.id \in DOMAIN query.attr_args
    THEN LET f == FormatPattern(self.bundle, attr.value, Some(query.attr_args[attr.id]))
         IN [local_errors |-> f.errs,
             attr_cache |-> [entry_id |-> query.id, attr_id |-> attr.id,
                             value |-> Some(f.out), bundle |-> self.bundle]]
    ELSE LET f == FormatPattern(self.bundle, attr.value, None)
         IN [local_errors |->
                 IF f.errs # <<>> /\ ~OnlyMissingAttrArgs(f.errs) THEN f.errs ELSE <<>>,
             attr_cache |-> [entry_id |-> query.id, attr_id |-> attr.id,
                             value |-> Some(f.out), bundle |-> self.bundle]]

\* ResolveAttr ignoring the explicit attr_args: every attribute is formatted
\* without arguments
ResolveAttrIgnoresAttrArgs(self, query, attr) ==
    LET f == FormatPattern(self.bundle, attr.value, None)
        even_more_local_errors == f.errs
    IN [local_errors |->
            IF even_more_local_errors # <<>>
               /\ ~OnlyMissingAttrArgs(even_more_local_errors)
            THEN even_more_local_errors ELSE <<>>,
        attr_cache |->
            AttrCache(query.id, attr.id,
                      IF even_more_local_errors # <<>> THEN None ELSE Some(f.out),
                      self.bundle)]

\* the body of the `for attr in msg.attributes()` loop of Locale::query:
\* the attribute's local_errors and the AttrCache inserted under attr.id
ResolveAttr(self, query, attr) ==
    IF attr.id \in DOMAIN query.attr_args
    THEN LET f == FormatPattern(self.bundle, attr.value, Some(query.attr_args[attr.id]))
         IN [local_errors |-> f.errs,
             attr_cache |-> AttrCache(query.id, attr.id, Some(f.out), self.bundle)]
    ELSE LET f == FormatPattern(self.bundle, attr.value, None)
             even_more_local_errors == f.errs
         IN [local_errors |->
                 IF even_more_local_errors # <<>>
                    /\ ~OnlyMissingAttrArgs(even_more_local_errors)
                 THEN even_more_local_errors ELSE <<>>,
             attr_cache |->
                 AttrCache(query.id, attr.id,
                           IF even_more_local_errors # <<>> THEN None ELSE Some(f.out),
                           self.bundle)]

\* `errors` at the end of one loop iteration: local_errors goes out of scope
\* at line 258 without being appended to `errors`
ErrorsAfterAttr(errors, local_errors) == errors

\* the attribute loop: the accumulated `errors` and the `attrs` map
RECURSIVE AttrLoop(_, _, _, _, _, _)
AttrLoop(self, query, attributes, i, errors, attrs) ==
    IF i > Len(attributes) THEN [errors |-> errors, attrs |-> attrs]
    ELSE LET r == ResolveAttr(self, query, attributes[i])
         IN AttrLoop(self, query, attributes, i + 1,
                     ErrorsAfterAttr(errors, r.local_errors),
                     (attributes[i].id :> r.attr_cache) @@ attrs)

\* MessageNotFound without the early return: the error is pushed and the
\* placeholder message is answered
MessageNotFoundNoReturn(query) ==
    Ok([id |-> query.id, value |-> "<" \o query.id \o ">", attrs |-> [a \in {} |-> a]])

\* the early return of Locale::query when get_message finds nothing
MessageNotFound(query) == Err(<<RefMessage(query.id, None)>>)

\* LocaleQuery resolving a message without value pattern to the empty string
LocaleQueryEmptyValue(self, query) ==
    LET m == GetMessage(self.bundle, query.id) IN
    IF m = None THEN MessageNotFound(query)
    ELSE
    LET msg == m[1]
        main == IF IsSome(msg.value)
                THEN FormatPattern(self.bundle, msg.value[1], Some(query.args))
                ELSE [out |-> "", errs |-> <<>>]
        loop == AttrLoop(self, query, msg.attributes, 1, main.errs, [a \in {} |-> a])
    IN IF loop.errors # <<>> THEN Err(loop.errors)
       ELSE Ok([id |-> query.id, value |-> main.out, attrs |-> loop.attrs])

\* LocaleQuery handing out only the attributes it could resolve: the deferred
\* ones are left out of attrs
LocaleQueryResolvedAttrsOnly(self, query) ==
    LET m == GetMessage(self.bundle, query.id) IN
    IF m = None THEN MessageNotFound(query)
    ELSE
    LET msg == m[1]
        main == IF IsSome(msg.value)
                THEN FormatPattern(self.bundle, msg.value[1], Some(query.args))
                ELSE [out |-> "<" \o query.id \o ">", errs |-> <<>>]
        loop == AttrLoop(self, query, msg.attributes, 1, main.errs, [a \in {} |-> a])
    IN IF loop.errors # <<>> THEN Err(loop.errors)
       ELSE Ok([id |-> query.id, value |-> main.out,
                attrs |-> [a \in {b \in DOMAIN loop.attrs : IsSome(loop.attrs[b].value)}
                             |-> loop.attrs[a]]])

\* Locale::query
LocaleQuery(self, query) ==
    LET m == GetMessage(self.bundle, query.id) IN
    IF m = None THEN MessageNotFound(query)
    ELSE
    LET msg == m[1]
        main == IF IsSome(msg.value)
                THEN FormatPattern(self.bundle, msg.value[1], Some(query.args))
                ELSE [out |-> "<" \o query.id \o ">", errs |-> <<>>]
        loop == AttrLoop(self, query, msg.attributes, 1, main.errs, [a \in {} |-> a])
    IN IF loop.errors # <<>> THEN Err(loop.errors)
       ELSE Ok([id |-> query.id, value |-> main.out, attrs |-> loop.attrs])

(***************************************************************************)
(* AttrCache::query: the Result and the handle after the call (&mut self)  *)
(***************************************************************************)
FindAttribute(msg, attr_id) ==
    IF \E i \in 1..Len(msg.attributes) : msg.attributes[i].id = attr_id
    THEN Some(msg.attributes[CHOOSE i \in 1..Len(msg.attributes) :
                  /\ msg.attributes[i].id = attr_id
                  /\ \A j \in 1..(i - 1) : msg.attributes[j].id # attr_id])
    ELSE None

\* AttrCacheQuery without the early return on a cached value: the pattern is
\* looked up and formatted on every call
AttrCacheQueryIgnoresCache(self, args) ==
    LET m == GetMessage(self.bundle, self.entry_id) IN
    IF m = None
    THEN [result |-> Err(<<RefMessage(self.entry_id, None)>>), self |-> self]
    ELSE
    LET this_attr == FindAttribute(m[1], self.attr_id) IN
    IF this_attr = None
    THEN [result |-> Err(<<RefMessage(self.entry_id, Some(self.attr_id))>>),
          self |-> self]
    ELSE
    LET f == FormatPattern(self.bundle, this_attr[1].value, args) IN
    IF f.errs # <<>> THEN [result |-> Err(f.errs), self |-> self]
    ELSE [result |-> Ok(f.out), self |-> self]

\* AttrCacheQuery treating undefined variables the way Locale::query does for
\* a deferred attribute: they are not reported
AttrCacheQuerySuppressesUndefined(self, args) ==
    IF IsSome(self.value) THEN [result |-> Ok(self.value[1]), self |-> self]
    ELSE
    LET m == GetMessage(self.bundle, self.entry_id) IN
    IF m = None
    THEN [result |-> Err(<<RefMessage(self.entry_id, None)>>), self |-> self]
    ELSE
    LET this_attr == FindAttribute(m[1], self.attr_id) IN
    IF this_attr = None
    THEN [result |-> Err(<<RefMessage(self.entry_id, Some(self.attr_id))>>),
          self |-> self]
    ELSE
    LET f == FormatPattern(self.bundle, this_attr[1].value, args) IN
    IF f.errs # <<>> /\ ~OnlyMissingAttrArgs(f.errs)
    THEN [result |-> Err(f.errs), self |-> self]
    ELSE [result |-> Ok(f.out), self |-> self]

\* AttrCacheQuery keeping what it formatted although formatting failed: the
\* partial string is stored in the handle
AttrCacheQueryCachesOnError(self, args) ==
    IF IsSome(self.value) THEN [result |-> Ok(self.value[1]), self |-> self]
    ELSE
    LET m == GetMessage(self.bundle, self.entry_id) IN
    IF m = None
    THEN [result |-> Err(<<RefMessage(self.entry_id, None)>>), self |-> self]
    ELSE
    LET this_attr == FindAttribute(m[1], self.attr_id) IN
    IF this_attr = None
    THEN [result |-> Err(<<RefMessage(self.entry_id, Some(self.attr_id))>>),
          self |-> self]
    ELSE
    LET f == FormatPattern(self.bundle, this_attr[1].value, args) IN
    IF f.errs # <<>>
    THEN [result |-> Err(f.errs), self |-> [self EXCEPT !.value = Some(f.out)]]
    ELSE [result |-> Ok(f.out), self |-> self]

AttrCacheQuery(self, args) ==
    IF IsSome(self.value) THEN [result |-> Ok(self.value[1]), self |-> self]
    ELSE
    LET m == GetMessage(self.bundle, self.entry_id) IN
    IF m = None
    THEN [result |-> Err(<<RefMessage(self.entry_id, None)>>), self |-> self]
    ELSE
    LET this_attr == FindAttribute(m[1], self.attr_id) IN
    IF this_attr = None
    THEN [result |-> Err(<<RefMessage(self.entry_id, Some(self.attr_id))>>),
          self |-> self]
    ELSE
    LET f == FormatPattern(self.bundle, this_attr[1].value, args) IN
    IF f.errs # <<>> THEN [result |-> Err(f.errs), self |-> self]
    ELSE [result |-> Ok(f.out), self |-> self]

(***************************************************************************)
(* AttrCache equality                                                      *)
(***************************************************************************)
\* AttrCacheEq comparing every field, as a derived PartialEq would
AttrCacheEqAllFields(self, other) == self = other

\* impl PartialEq for AttrCache
AttrCacheEq(self, other) ==
    self.entry_id = other.entry_id /\ self.attr_id = other.attr_id

(***************************************************************************)
(* Locales                                                                 *)
(***************************************************************************)
\* SelectLocale falling back to some other registered locale instead of the
\* one of fallback_lang
SelectLocaleAnyOther(locales_map, fallback, lang) ==
    IF lang \in DOMAIN locales_map THEN Some(locales_map[lang])
    ELSE IF fallback \in DOMAIN locales_map
    THEN Some(locales_map[CHOOSE l \in DOMAIN locales_map :
                  l # fallback \/ DOMAIN locales_map = {fallback}])
    ELSE None

\* SelectLocale preferring the fallback locale whenever it is present
SelectLocalePrefersFallback(locales_map, fallback, lang) ==
    IF fallback \in DOMAIN locales_map THEN Some(locales_map[fallback])
    ELSE IF lang \in DOMAIN locales_map THEN Some(locales_map[lang])
    ELSE None

\* the match of Locales::query on self.locales.get(lang): the Locale that
\* answers, None when the `expect` on the fallback locale panics
SelectLocale(locales_map, fallback, lang) ==
    IF lang \in DOMAIN locales_map THEN Some(locales_map[lang])
    ELSE IF fallback \in DOMAIN locales_map THEN Some(locales_map[fallback])
    ELSE None

\* ObserverCalls without the test on Err: the observer is invoked on every query
ObserverCallsOnEveryQuery(observer, query_result) ==
    IF IsSome(observer)
    THEN <<IF IsErr(query_result) THEN query_result.val ELSE <<>> >>
    ELSE <<>>

\* the observer invocations of one Locales::query with result query_result
ObserverCalls(observer, query_result) ==
    IF IsSome(observer) /\ IsErr(query_result) THEN <<query_result.val>> ELSE <<>>

\* InsertLocale keeping the entry the mapping already holds for the key
InsertLocaleKeepsOld(locales_map, lang_id, locale) ==
    locales_map @@ (lang_id :> locale)

\* self.locales.insert(lang_id, locale): the mapping after the insert
InsertLocale(locales_map, lang_id, locale) ==
    (lang_id :> locale) @@ locales_map

\* RegistryAfterQuery remembering the fallback answer: the fallback locale is
\* stored under the tag that had no locale
RegistryAfterQueryStoresFallback(locales_map, fallback, lang) ==
    IF lang \notin DOMAIN locales_map /\ fallback \in DOMAIN locales_map
    THEN (lang :> locales_map[fallback]) @@ locales_map
    ELSE locales_map

\* the mapping after Locales::query(&self, lang, query): the call has shared
\* access only and writes nothing
RegistryAfterQuery(locales_map, fallback, lang) == locales_map

(***************************************************************************)
(* i18n-macros: the expansions of tr! and attr!                            *)
(***************************************************************************)
\* TrExpansion answering a failed query with an empty value
TrExpansionEmptyValue(id, query_result) ==
    IF IsOk(query_result) THEN query_result.val
    ELSE [id |-> id, value |-> "", attrs |-> [a \in {} |-> a]]

\* tr! without on_error: the match on the Result of Locales::query
TrExpansion(id, query_result) ==
    IF IsOk(query_result) THEN query_result.val
    ELSE [id |-> id, value |-> id, attrs |-> [a \in {} |-> a]]

\* Locales::call_on_error: the observer invocations it makes
CallOnError(observer, errors) == IF IsSome(observer) THEN <<errors>> ELSE <<>>

\* attr!: query_result, the match on from.attrs.get_mut(attr)
AttrQueryResult(from, attr, args) ==
    IF attr \in DOMAIN from.attrs
    THEN AttrCacheQuery(from.attrs[attr], args).result
    ELSE Err(<<RefMessage(from.id, Some(attr))>>)

\* AttrExpansion answering a missing attribute silently: call_on_error is
\* reached only by the errors of AttrCache::query
AttrExpansionSilentOnMissing(from, attr, args) ==
    LET query_result == AttrQueryResult(from, attr, args) IN
    IF IsOk(query_result) THEN [value |-> query_result.val, call_on_error |-> <<>>]
    ELSE [value |-> attr,
          call_on_error |-> IF attr \in DOMAIN from.attrs
                            THEN <<query_result.val>> ELSE <<>>]

\* attr!: the String it evaluates to and the call_on_error calls it makes
AttrExpansion(from, attr, args) ==
    LET query_result == AttrQueryResult(from, attr, args) IN
    IF IsOk(query_result) THEN [value |-> query_result.val, call_on_error |-> <<>>]
    ELSE [value |-> attr, call_on_error |-> <<query_result.val>>]

(***************************************************************************)
(* Inputs: tag strings, resources, queries                                 *)
(***************************************************************************)
StrEnUS == <<"e","n","-","U","S">>
StrHrHR == <<"h","r","-","H","R">>
StrHrLower == <<"h","r","-","h","r">>
StrDe == <<"d","e">>
StrInvalid == <<"e","n","-","U">>

\* the lang_str arguments of add_locale
LangStrs == {StrEnUS, StrHrHR, StrHrLower, StrInvalid}
\* the fallback languages a registry is constructed with
FallbackLangs == {ParseLangid(StrEnUS).val, ParseLangid(StrHrHR).val}
\* the tags the queried languages are written as (langid!); no locale is
\* ever added for "de"
QueryLangStrs == {StrEnUS, StrHrHR, StrHrLower, StrDe}
QueryLangs == {ParseLangid(s).val : s \in QueryLangStrs}

\* promo = Buy now, { $name }!
\*     .ref = { -brand } rocks
\*     .label = More on { $form }
\* btn =
\*     .idle = Login
\*     .label = Submit the { $form } form
\* bad = See { bad }
\*     .label = Tip { $form }
ResEn == <<
    MessageEntry("promo", Some(<<Text("Buy now, "), VarRef("name"), Text("!")>>),
        <<Attribute("ref", <<TermRef("brand"), Text(" rocks")>>),
          Attribute("label", <<Text("More on "), VarRef("form")>>)>>),
    MessageEntry("btn", None,
        <<Attribute("idle", <<Text("Login")>>),
          Attribute("label", <<Text("Submit the "), VarRef("form"), Text(" form")>>)>>),
    MessageEntry("bad", Some(<<Text("See "), MsgRef("bad")>>),
        <<Attribute("label", <<Text("Tip "), VarRef("form")>>)>>) >>

\* btn = Prijava
\*     .label = Posalji { $form }
\* -brand = Akme
ResHr == <<
    MessageEntry("btn", Some(<<Text("Prijava")>>),
        <<Attribute("label", <<Text("Posalji "), VarRef("form")>>)>>),
    TermEntry("brand", <<Text("Akme")>>) >>

\* -brand = Acme
ResExtra == << TermEntry("brand", <<Text("Acme")>>) >>

Resources == {ResEn, ResHr, ResExtra}

\* the `resources` vectors of add_locale
RECURSIVE SeqsUpTo(_, _)
SeqsUpTo(S, n) ==
    IF n = 0 THEN {<<>>}
    ELSE LET shorter == SeqsUpTo(S, n - 1)
         IN shorter \cup {Append(v, r) : v \in shorter, r \in S}
ResourceVecs == SeqsUpTo(Resources, MaxResources) \ {<<>>}

\* the queries: Query::new(id) followed by with_arg / with_attr_arg calls
QueryIds == {"promo", "btn", "bad", "nope"}
MainArgCalls == {<<"name", "Ann">>}
AttrArgCalls == {<<"label", "form", "signup">>, <<"label", "user", "Ann">>,
                 <<"ghost", "form", "signup">>, <<"ghost", "user", "Ann">>}
\* number of with_attr_arg calls on one Query
MaxAttrArgCalls == 2

RECURSIVE ApplyWithArg(_, _)
ApplyWithArg(q, calls) ==
    IF calls = {} THEN q
    ELSE LET c == CHOOSE c \in calls : TRUE
         IN ApplyWithArg(WithArg(q, c[1], c[2]), calls \ {c})
RECURSIVE ApplyWithAttrArg(_, _)
ApplyWithAttrArg(q, calls) ==
    IF calls = {} THEN q
    ELSE LET c == CHOOSE c \in calls : TRUE
         IN ApplyWithAttrArg(WithAttrArg(q, c[1], c[2], c[3]), calls \ {c})

Queries ==
    {ApplyWithAttrArg(ApplyWithArg(QueryNew(id), m), aa) :
        id \in QueryIds, m \in SUBSET MainArgCalls,
        aa \in {c \in SUBSET AttrArgCalls : Cardinality(c) <= MaxAttrArgCalls}}
    \cup {WithFallback(ApplyWithArg(QueryNew(id), m), TRUE) :
             id \in QueryIds, m \in SUBSET MainArgCalls}

\* the args of AttrCache::query
HandleArgs == {None, Some(("form" :> "signup")), Some(("user" :> "Ann"))}

\* the add_locale calls that load the registry the readers share
LoadCalls == {<<StrEnUS, <<ResEn, ResExtra>>>>, <<StrHrLower, <<ResHr>>>>}
RECURSIVE AfterLoad(_, _, _)
AfterLoad(locales_map, calls, i) ==
    IF i > Len(calls) THEN locales_map
    ELSE LET lang_id == ParseLangid(calls[i][1]).val
         IN AfterLoad(InsertLocale(locales_map, lang_id,
                                   LocaleNew(lang_id, calls[i][2]).val),
                      calls, i + 1)
LoadedRegistries ==
    {AfterLoad([l \in {} |-> l], calls, 1) : calls \in SeqsUpTo(LoadCalls, Cardinality(LoadCalls))}

\* the readers, the languages and the queries of their calls
Readers == 1..NumReaders
ReaderLangs == {ParseLangid(StrHrLower).val, ParseLangid(StrDe).val}
ReaderQueries == {QueryNew("promo"), WithArg(QueryNew("promo"), "name", "Ann")}
IdleReader == [pc |-> "idle", lang |-> None, query |-> None, result |-> None,
               observed |-> <<>>]
NoReaders == [t \in Readers |-> IdleReader]

(***************************************************************************)
(* State                                                                   *)
(***************************************************************************)
VARIABLES
    locales,        \* Locales.locales: HashMap<LanguageIdentifier, Locale>
    fallback_lang,  \* Locales.fallback_lang
    on_error,       \* Locales.on_error: Option<fn(&[FluentError])>
    panic,          \* "none", or the message of the panic that ended the program
    op,             \* the operation that ran last
    q_lang,         \* Option: the lang of the last Locales::query
    q_query,        \* Option: the Query of the last Locales::query
    result,         \* Option: the Result the last Locales::query returned
    observed,       \* the error lists the observer was invoked with by the last operation
    handle,         \* Option<AttrCache>: the handle the caller retains from a Message
    handle_calls,   \* the AttrCache::query calls made on the retained handle:
                    \* the cached value before the call, the args, the Result
    call,           \* Option: the last add_locale call while the registry is being
                    \* loaded: its arguments and the mapping before it
    readers,        \* the Locales::query calls of the concurrent readers
    msg,            \* Option<Message>: the Message a caller of tr! holds
    arg,            \* Option: the arguments of the function or macro called last
    ret             \* Option: what that function or macro returned

vars == <<locales, fallback_lang, on_error, panic, op, q_lang, q_query, result,
          observed, handle, handle_calls, call, readers, msg, arg, ret>>

EmptyLocales == [l \in {} |-> l]

\* Locales::new(fallback_lang, on_error)
Init ==
    /\ locales = EmptyLocales
    /\ fallback_lang \in FallbackLangs
    /\ on_error \in {None, Some("on_error")}
    /\ panic = "none"
    /\ op = "new"
    /\ q_lang = None
    /\ q_query = None
    /\ result = None
    /\ observed = <<>>
    /\ handle = None
    /\ handle_calls = <<>>
    /\ call = None
    /\ readers = NoReaders
    /\ msg = None
    /\ arg = None
    /\ ret = None

\* The caller works one request at a time: the Message of a query, or the
\* handle retained from it, is released before the next registry call.
NoOutstandingResult == result = None /\ handle = None

\* Locales::add_locale(lang_str, resources), panicking on either `expect`
AddLocaleCall(lang_str, resources) ==
    /\ panic = "none"
    /\ LET parsed == ParseLangid(lang_str) IN
       IF IsErr(parsed)
       THEN /\ panic' = "Language ID should be valid"
            /\ UNCHANGED locales
       ELSE LET lang_id == parsed.val
                locale == LocaleNew(lang_id, resources)
            IN IF IsErr(locale)
               THEN /\ panic' = locale.val
                    /\ UNCHANGED locales
               ELSE /\ locales' = InsertLocale(locales, lang_id, locale.val)
                    /\ UNCHANGED panic
    /\ op' = "add_locale"
    /\ observed' = <<>>
    /\ UNCHANGED <<fallback_lang, on_error, q_lang, q_query, result, handle_calls>>

\* add_locale called by the program that also queries
AddLocale(lang_str, resources) ==
    /\ NoOutstandingResult
    /\ AddLocaleCall(lang_str, resources)
    /\ UNCHANGED <<handle, call, readers, msg, arg, ret>>

\* add_locale called while the registry is being loaded, the call logged
LoadLocale(lang_str, resources) ==
    /\ NoOutstandingResult
    /\ AddLocaleCall(lang_str, resources)
    /\ call' = Some([lang_str |-> lang_str, resources |-> resources, before |-> locales])
    /\ UNCHANGED <<handle, readers, msg, arg, ret>>

\* Locales::query(lang, query), panicking on the `expect` of the fallback locale
LocalesQuery(lang, query) ==
    /\ panic = "none"
    /\ NoOutstandingResult
    /\ LET locale == SelectLocale(locales, fallback_lang, lang) IN
       IF locale = None
       THEN /\ panic' = "a fallback language should *always* exist and be present as a locale"
            /\ result' = None
            /\ observed' = <<>>
       ELSE LET query_result == LocaleQuery(locale[1], query) IN
            /\ result' = Some(query_result)
            /\ observed' = ObserverCalls(on_error, query_result)
            /\ UNCHANGED panic
    /\ op' = "query"
    /\ q_lang' = Some(lang)
    /\ q_query' = Some(query)
    /\ locales' = RegistryAfterQuery(locales, fallback_lang, lang)
    /\ UNCHANGED <<call, readers, msg, arg, ret>>
    /\ UNCHANGED <<fallback_lang, on_error, handle, handle_calls>>

\* msg.attrs.get_mut(attr): the caller retains one handle of the Message
\* returned by the last query and lets the rest of the Message go
TakeHandle(attr) ==
    /\ panic = "none"
    /\ IsSome(result) /\ IsOk(result[1])
    /\ attr \in DOMAIN result[1].val.attrs
    /\ handle' = Some(result[1].val.attrs[attr])
    /\ handle_calls' = <<>>
    /\ op' = "get_mut"
    /\ q_lang' = None
    /\ q_query' = None
    /\ result' = None
    /\ observed' = <<>>
    /\ UNCHANGED <<call, readers, msg, arg, ret>>
    /\ UNCHANGED <<locales, fallback_lang, on_error, panic>>

\* AttrCache::query(args) on the retained handle
HandleQuery(args) ==
    /\ panic = "none"
    /\ IsSome(handle)
    /\ Len(handle_calls) < MaxHandleCalls
    /\ LET r == AttrCacheQuery(handle[1], args) IN
       /\ handle' = Some(r.self)
       /\ handle_calls' = Append(handle_calls,
              [cached |-> handle[1].value, args |-> args, result |-> r.result])
    /\ op' = "attr_query"
    /\ observed' = <<>>
    /\ UNCHANGED <<call, readers, msg, arg, ret>>
    /\ UNCHANGED <<locales, fallback_lang, on_error, panic, q_lang, q_query, result>>

\* the Result of the last query, or the retained handle, goes out of scope
Release ==
    /\ panic = "none"
    /\ IsSome(result) \/ IsSome(handle)
    /\ op' = "drop"
    /\ q_lang' = None
    /\ q_query' = None
    /\ result' = None
    /\ observed' = <<>>
    /\ handle' = None
    /\ handle_calls' = <<>>
    /\ UNCHANGED <<call, readers, msg, arg, ret>>
    /\ UNCHANGED <<locales, fallback_lang, on_error, panic>>

Next ==
    \/ \E lang_str \in LangStrs, resources \in ResourceVecs : AddLocale(lang_str, resources)
    \/ \E lang \in QueryLangs, query \in Queries : LocalesQuery(lang, query)
    \/ \E attr \in {"idle", "label", "ref"} : TakeHandle(attr)
    \/ \E args \in HandleArgs : HandleQuery(args)
    \/ Release

Spec == Init /\ [][Next]_vars

(***************************************************************************)
(* Loading: the add_locale calls that build the registry, each one logged  *)
(***************************************************************************)
NextLoad ==
    \E lang_str \in LangStrs, resources \in ResourceVecs : LoadLocale(lang_str, resources)

SpecLoad == Init /\ [][NextLoad]_vars

(***************************************************************************)
(* Concurrent readers: after loading has finished, each reader thread runs *)
(* one Locales::query on the shared registry, its steps interleaved with   *)
(* the steps of the others                                                 *)
(***************************************************************************)
InitReaders ==
    /\ locales \in LoadedRegistries
    /\ fallback_lang \in FallbackLangs
    /\ on_error \in {None, Some("on_error")}
    /\ panic = "none"
    /\ op = "new"
    /\ q_lang = None
    /\ q_query = None
    /\ result = None
    /\ observed = <<>>
    /\ handle = None
    /\ handle_calls = <<>>
    /\ call = None
    /\ readers = NoReaders
    /\ msg = None
    /\ arg = None
    /\ ret = None

\* reader t enters Locales::query(lang, query)
ReaderCall(t, lang, query) ==
    /\ readers[t].pc = "idle"
    /\ readers' = [readers EXCEPT ![t] = [@ EXCEPT !.pc = "called",
                                                  !.lang = Some(lang),
                                                  !.query = Some(query)]]
    /\ UNCHANGED <<locales, fallback_lang, on_error, panic, op, q_lang, q_query,
                   result, observed, handle, handle_calls, call, msg, arg, ret>>

\* reader t evaluates the match on self.locales.get(lang): query_result, or
\* the panic of its thread on the `expect` of the fallback locale
ReaderResolve(t) ==
    /\ readers[t].pc = "called"
    /\ LET locale == SelectLocale(locales, fallback_lang, readers[t].lang[1]) IN
       IF locale = None
       THEN readers' = [readers EXCEPT ![t] = [@ EXCEPT !.pc = "panicked"]]
       ELSE readers' = [readers EXCEPT ![t] =
                [@ EXCEPT !.pc = "resolved",
                          !.result = Some(LocaleQuery(locale[1], readers[t].query[1]))]]
    /\ locales' = RegistryAfterQuery(locales, fallback_lang, readers[t].lang[1])
    /\ UNCHANGED <<fallback_lang, on_error, panic, op, q_lang, q_query,
                   result, observed, handle, handle_calls, call, msg, arg, ret>>

\* reader t runs the `if let (Some(on_error), Err(errs))` and returns
ReaderReturn(t) ==
    /\ readers[t].pc = "resolved"
    /\ readers' = [readers EXCEPT ![t] =
           [@ EXCEPT !.pc = "done",
                     !.observed = ObserverCalls(on_error, readers[t].result[1])]]
    /\ UNCHANGED <<locales, fallback_lang, on_error, panic, op, q_lang, q_query,
                   result, observed, handle, handle_calls, call, msg, arg, ret>>

NextReaders ==
    \/ \E t \in Readers, lang \in ReaderLangs, query \in ReaderQueries :
           ReaderCall(t, lang, query)
    \/ \E t \in Readers : ReaderResolve(t)
    \/ \E t \in Readers : ReaderReturn(t)

SpecReaders == InitReaders /\ [][NextReaders]_vars

(***************************************************************************)
(* Macros: a caller evaluates tr! on the loaded registry and then attr! on *)
(* the Message it got                                                      *)
(***************************************************************************)
MacroQueries ==
    {QueryNew("btn"), WithAttrArg(QueryNew("btn"), "label", "form", "signup"),
     QueryNew("promo"), WithArg(QueryNew("promo"), "name", "Ann"), QueryNew("nope")}
MacroAttrs == {"idle", "label", "ghost"}

InitMacros ==
    /\ locales \in LoadedRegistries
    /\ fallback_lang \in FallbackLangs
    /\ on_error \in {None, Some("on_error")}
    /\ panic = "none"
    /\ op = "new"
    /\ q_lang = None
    /\ q_query = None
    /\ result = None
    /\ observed = <<>>
    /\ handle = None
    /\ handle_calls = <<>>
    /\ call = None
    /\ readers = NoReaders
    /\ msg = None
    /\ arg = None
    /\ ret = None

\* let msg = tr!(lang, id, ..) without on_error
Tr(lang, query) ==
    /\ panic = "none"
    /\ msg = None
    /\ LET locale == SelectLocale(locales, fallback_lang, lang) IN
       IF locale = None
       THEN /\ panic' = "a fallback language should *always* exist and be present as a locale"
            /\ result' = None
            /\ observed' = <<>>
            /\ msg' = None
       ELSE LET query_result == LocaleQuery(locale[1], query) IN
            /\ result' = Some(query_result)
            /\ observed' = ObserverCalls(on_error, query_result)
            /\ msg' = Some(TrExpansion(query.id, query_result))
            /\ UNCHANGED panic
    /\ op' = "tr"
    /\ q_lang' = Some(lang)
    /\ q_query' = Some(query)
    /\ locales' = RegistryAfterQuery(locales, fallback_lang, lang)
    /\ UNCHANGED <<fallback_lang, on_error, handle, handle_calls, call, readers, arg, ret>>

\* attr!(msg, attr, ..args)
Attr(attr, args) ==
    /\ panic = "none"
    /\ IsSome(msg)
    /\ LET expansion == AttrExpansion(msg[1], attr, args) IN
       /\ arg' = Some([attr |-> attr, args |-> args])
       /\ ret' = Some(expansion)
       /\ result' = Some(AttrQueryResult(msg[1], attr, args))
       /\ observed' = IF expansion.call_on_error = <<>> THEN <<>>
                      ELSE CallOnError(on_error, expansion.call_on_error[1])
       /\ msg' = IF attr \in DOMAIN msg[1].attrs
                 THEN Some([msg[1] EXCEPT !.attrs[attr] =
                                AttrCacheQuery(msg[1].attrs[attr], args).self])
                 ELSE msg
    /\ op' = "attr"
    /\ UNCHANGED <<locales, fallback_lang, on_error, panic, q_lang, q_query,
                   handle, handle_calls, call, readers>>

NextMacros ==
    \/ \E lang \in QueryLangs, query \in MacroQueries : Tr(lang, query)
    \/ \E attr \in MacroAttrs, args \in HandleArgs : Attr(attr, args)

SpecMacros == InitMacros /\ [][NextMacros]_vars

(***************************************************************************)
(* A retained handle and a reloaded registry: the caller keeps an          *)
(* AttrCache of an earlier Message while add_locale replaces locales       *)
(***************************************************************************)
RebindQueries == {QueryNew("btn"), WithArg(QueryNew("promo"), "name", "Ann")}
RebindCalls == {<<StrHrHR, <<ResEn>>>>, <<StrHrLower, <<ResHr, ResExtra>>>>,
                <<StrEnUS, <<ResHr>>>>, <<StrInvalid, <<ResEn>>>>}

\* a handle rebound to the store of the locale that add_locale inserts
HandleFollowsRegistry(h, locale) == [h EXCEPT !.bundle = locale.bundle]

\* The handle owns an Arc of the bundle it was created with; add_locale
\* builds a new Locale with a bundle of its own and drops only the map's
\* reference to the old one.
HandleAfterInsert(h, locale) == h

\* a registry already loaded
InitRebind ==
    /\ locales \in LoadedRegistries
    /\ fallback_lang \in FallbackLangs
    /\ on_error \in {None, Some("on_error")}
    /\ panic = "none"
    /\ op = "new"
    /\ q_lang = None
    /\ q_query = None
    /\ result = None
    /\ observed = <<>>
    /\ handle = None
    /\ handle_calls = <<>>
    /\ call = None
    /\ readers = NoReaders
    /\ msg = None
    /\ arg = None
    /\ ret = None

\* add_locale called once while the caller retains a handle; the call, the
\* handle as it was and the number of queries made on it so far are logged
ReplaceLocale(lang_str, resources) ==
    /\ IsSome(handle) /\ result = None
    /\ call = None
    /\ AddLocaleCall(lang_str, resources)
    /\ LET parsed == ParseLangid(lang_str) IN
       IF IsErr(parsed) THEN UNCHANGED handle
       ELSE LET locale == LocaleNew(parsed.val, resources) IN
            IF IsErr(locale) THEN UNCHANGED handle
            ELSE handle' = Some(HandleAfterInsert(handle[1], locale.val))
    /\ call' = Some([lang_str |-> lang_str, resources |-> resources,
                     before |-> locales, at |-> Len(handle_calls),
                     held |-> handle[1]])
    /\ UNCHANGED <<readers, msg, arg, ret>>

NextRebind ==
    \/ \E lang \in QueryLangs, query \in RebindQueries : LocalesQuery(lang, query)
    \/ \E attr \in {"idle", "label", "ref"} : TakeHandle(attr)
    \/ \E args \in HandleArgs : HandleQuery(args)
    \/ \E c \in RebindCalls : ReplaceLocale(c[1], c[2])

SpecRebind == InitRebind /\ [][NextRebind]_vars

(***************************************************************************)
(* Functions called on their own: the registry plays no part and stays as  *)
(* Locales::new("en-US", None) left it                                     *)
(***************************************************************************)
NoRegistry ==
    /\ locales = EmptyLocales
    /\ fallback_lang = ParseLangid(StrEnUS).val
    /\ on_error = None
    /\ panic = "none"
    /\ op = "new"
    /\ q_lang = None
    /\ q_query = None
    /\ result = None
    /\ observed = <<>>
    /\ handle = None
    /\ handle_calls = <<>>
    /\ call = None
    /\ readers = NoReaders
    /\ msg = None

(***************************************************************************)
(* AttrCache == AttrCache on two handles                                   *)
(***************************************************************************)
EqValues == {None, Some("Login"), Some("Prijava")}
EqHandles ==
    {AttrCache(entry_id, attr_id, value, bundle) :
        entry_id \in {"promo", "btn"}, attr_id \in {"idle", "label"},
        value \in EqValues,
        bundle \in {LocaleNew(ParseLangid(StrEnUS).val, <<ResEn>>).val.bundle,
                    LocaleNew(ParseLangid(StrHrHR).val, <<ResHr>>).val.bundle}}

InitEq ==
    /\ NoRegistry
    /\ arg \in {Some(<<self, other>>) : self \in EqHandles, other \in EqHandles}
    /\ ret = None

\* self == other
CompareHandles ==
    /\ IsSome(arg) /\ ret = None
    /\ ret' = Some(AttrCacheEq(arg[1][1], arg[1][2]))
    /\ UNCHANGED <<locales, fallback_lang, on_error, panic, op, q_lang, q_query,
                   result, observed, handle, handle_calls, call, readers, msg, arg>>

NextEq == CompareHandles

SpecEq == InitEq /\ [][NextEq]_vars

(***************************************************************************)
(* load!(path, check_keys): the macro reads <path>/<locale>/<file>.ftl at  *)
(* compile time and expands to compile errors or to a registry             *)
(***************************************************************************)
MaxFiles == 2
BuildLocales == {StrEnUS, StrHrHR}
FileNames == {"file" \o ToString(i) \o ".ftl" : i \in 1..MaxFiles}

\* what a .ftl file of a locale directory holds: nothing (the file does not
\* exist), text the parser rejects, or a resource
Unparsable == <<[kind |-> "junk"]>>
FileContents == {None, Some(Unparsable)} \cup {Some(r) : r \in Resources}
Directories == [BuildLocales -> [FileNames -> FileContents]]

\* the orders in which read_dir may list the files of a locale directory
ReadDirOrders ==
    {o \in [1..MaxFiles -> FileNames] : \A i, j \in 1..MaxFiles : o[i] = o[j] => i = j}

\* the file was found and parsed
Parsed(dir, locale, file_name) ==
    dir[locale][file_name] # None /\ dir[locale][file_name] # Some(Unparsable)

\* keys: the names of the Message and Term entries of one parsed file
FileKeySet(resource) == {resource[i].id : i \in 1..Len(resource)}

\* errors pushed for the files the parser rejects
ParseErrors(dir) ==
    {[error |-> "Failed to parse", locale |-> l, file_name |-> f, missing |-> {}] :
        <<l, f>> \in {p \in BuildLocales \X FileNames : dir[p[1]][p[2]] = Some(Unparsable)}}

\* file_keys[file_name]: the key sets of the locales that hold the file
LocaleKeysets(dir, file_name) ==
    [l \in {k \in BuildLocales : Parsed(dir, k, file_name)}
        |-> FileKeySet(dir[l][file_name][1])]

\* the check_keys loop: per file name, each locale holding the file is
\* compared with the union over the locales holding the file
MissingKeyErrors(dir) ==
    UNION {LET locale_keysets == LocaleKeysets(dir, f)
               all_keys == UNION {locale_keysets[l] : l \in DOMAIN locale_keysets}
           IN {[error |-> "Missing keys", locale |-> l, file_name |-> f,
                missing |-> all_keys \ locale_keysets[l]] :
                  l \in {k \in DOMAIN locale_keysets : all_keys \ locale_keysets[k] # {}}}
           : f \in FileNames}

\* locale_contents[locale]: the contents of its parsed files as read_dir listed them
RECURSIVE LocaleContents(_, _, _, _)
LocaleContents(dir, locale, order, i) ==
    IF i > Len(order) THEN <<>>
    ELSE (IF Parsed(dir, locale, order[i]) THEN <<dir[locale][order[i]][1]>> ELSE <<>>)
         \o LocaleContents(dir, locale, order, i + 1)

\* load_impl: the compile errors, or the add_locale calls of the expansion
LoadImpl(dir, check_keys, order) ==
    LET errors == ParseErrors(dir) \cup (IF check_keys THEN MissingKeyErrors(dir) ELSE {})
    IN IF errors # {}
       THEN [compile_errors |-> errors, add_locale |-> {}]
       ELSE [compile_errors |-> {},
             add_locale |-> {<<l, LocaleContents(dir, l, order, 1)>> :
                               l \in {k \in BuildLocales :
                                        \E f \in FileNames : Parsed(dir, k, f)}}]

InitBuild ==
    /\ NoRegistry
    /\ arg \in {Some([dir |-> d, check_keys |-> c]) : d \in Directories, c \in BOOLEAN}
    /\ ret = None

\* the compiler expands load!
Load(order) ==
    /\ IsSome(arg) /\ ret = None
    /\ ret' = Some(LoadImpl(arg[1].dir, arg[1].check_keys, order))
    /\ UNCHANGED <<locales, fallback_lang, on_error, panic, op, q_lang, q_query,
                   result, observed, handle, handle_calls, call, readers, msg, arg>>

NextBuild == \E order \in ReadDirOrders : Load(order)

SpecBuild == InitBuild /\ [][NextBuild]_vars

(***************************************************************************)
(* Lang::from(LanguageIdentifier): strings are sequences of characters     *)
(***************************************************************************)
MaxLanguageLen == 2
LanguageLetters == {"d", "e", "h", "n", "r"}
RegionLetters == {"D", "E", "H", "R", "S", "U"}

\* the sequences of length n over the characters S
RECURSIVE CharSeqs(_, _)
CharSeqs(S, n) ==
    IF n = 0 THEN {<<>>}
    ELSE {Append(cs, c) : cs \in CharSeqs(S, n - 1), c \in S}

\* valid identifiers as unic_langid holds them: lower-cased language,
\* optional title-cased script, optional upper-cased region
LangTags ==
    [language : UNION {CharSeqs(LanguageLetters, n) : n \in 2..MaxLanguageLen},
     script : {None, Some(<<"L", "a", "t", "n">>)},
     region : {None} \cup {Some(r) : r \in CharSeqs(RegionLetters, 2)}]

\* LanguageIdentifier::to_string
TagToString(value) ==
    value.language
        \o (IF IsSome(value.script) THEN <<"-">> \o value.script[1] ELSE <<>>)
        \o (IF IsSome(value.region) THEN <<"-">> \o value.region[1] ELSE <<>>)

\* str::contains(char)
Contains(cs, c) == \E i \in 1..Len(cs) : cs[i] = c

\* str::split(&pattern) for a non-empty pattern: the pieces between the
\* occurrences of pattern, scanning from the left
RECURSIVE StrSplit(_, _, _)
StrSplit(cs, pattern, cur) ==
    IF cs = <<>> THEN <<cur>>
    ELSE IF Len(cs) >= Len(pattern) /\ SubSeq(cs, 1, Len(pattern)) = pattern
         THEN <<cur>> \o StrSplit(SubSeq(cs, Len(pattern) + 1, Len(cs)), pattern, <<>>)
         ELSE StrSplit(Tail(cs), pattern, Append(cur, Head(cs)))

\* str::to_lowercase, str::to_uppercase
ToLowercase(cs) == [i \in 1..Len(cs) |-> ToLower(cs[i])]
ToUppercase(cs) == [i \in 1..Len(cs) |-> ToUpper(cs[i])]

\* the country codes of the flag table that the region letters can spell
FlagCodes == {<<"D","E">>, <<"E","E">>, <<"E","H">>, <<"E","R">>, <<"E","S">>,
              <<"H","R">>, <<"H","U">>, <<"R","E">>, <<"R","S">>, <<"R","U">>,
              <<"S","D">>, <<"S","E">>, <<"S","H">>, <<"S","R">>, <<"S","S">>,
              <<"U","S">>}

\* langid_to_flag(region): the flag glyph of the country code, written here
\* as the code between brackets
LangidToFlag(region) ==
    IF ToUppercase(region) \in FlagCodes
    THEN Some(<<"[">> \o ToUppercase(region) \o <<"]">>)
    ELSE None

\* langid_to_dir(langid)
LangidToDir(langid) ==
    IF langid = <<"h", "e">> THEN "rtl"
    ELSE IF langid \in {<<"d","e">>, <<"e","e">>, <<"e","n">>, <<"h","r">>, <<"r","n">>,
                        <<"n","d">>, <<"n","e">>, <<"n","r">>, <<"n","n">>} THEN "ltr"
    ELSE "auto"

\* impl From<LanguageIdentifier> for Lang
LangFrom(value) ==
    LET langid == TagToString(value)
        splitter == IF Contains(langid, "_") THEN <<"_">>
                    ELSE IF Contains(langid, "-") THEN <<"-">>
                    ELSE langid
        parts == StrSplit(langid, splitter, <<>>)
        lang == ToLowercase(parts[1])
        region == IF Len(parts) >= 2 THEN Some(ToUppercase(parts[2])) ELSE None
        full_langid == IF IsSome(region) THEN lang \o <<"-">> \o region[1] ELSE lang
        flag == IF IsSome(region) /\ IsSome(LangidToFlag(region[1]))
                THEN LangidToFlag(region[1])[1] ELSE <<>>
    IN [id |-> full_langid, flag |-> flag, dir |-> LangidToDir(lang)]

InitLang ==
    /\ NoRegistry
    /\ arg \in {Some(value) : value \in LangTags}
    /\ ret = None

\* Lang::new(langid)
LangNew ==
    /\ IsSome(arg) /\ ret = None
    /\ ret' = Some(LangFrom(arg[1]))
    /\ UNCHANGED <<locales, fallback_lang, on_error, panic, op, q_lang, q_query,
                   result, observed, handle, handle_calls, call, readers, msg, arg>>

NextLang == LangNew

SpecLang == InitLang /\ [][NextLang]_vars

(***************************************************************************)
(* Properties                                                              *)
(***************************************************************************)
Range(seq) == {seq[i] : i \in 1..Len(seq)}

\* a query has been answered and its Result is still held by the caller
\* (the registry is not reloaded while it is)
Served == IsSome(result)
\* the Locale that answered the last query, and the message it looked up
Answering == SelectLocale(locales, fallback_lang, q_lang[1])[1]
Looked == GetMessage(Answering.bundle, q_query[1].id)
\* the errors of formatting the main value of the looked-up message
MainErrors ==
    IF IsSome(Looked[1].value)
    THEN FormatPattern(Answering.bundle, Looked[1].value[1], Some(q_query[1].args)).errs
    ELSE <<>>
\* the errors of formatting attribute attr the way the query asks for it
AttrErrors(attr) ==
    FormatPattern(Answering.bundle, attr.value,
                  IF attr.id \in DOMAIN q_query[1].attr_args
                  THEN Some(q_query[1].attr_args[attr.id]) ELSE None).errs
\* the errors an attribute has to report: all of them with explicit
\* arguments, none when it is deferred
GenuineAttrErrors(attr) ==
    IF attr.id \notin DOMAIN q_query[1].attr_args /\ OnlyMissingAttrArgs(AttrErrors(attr))
    THEN {} ELSE Range(AttrErrors(attr))
DeclaredAttrs == Range(Looked[1].attributes)
DeclaredAttrIds == {a.id : a \in DeclaredAttrs}
IsDeferred(attr) ==
    /\ attr.id \notin DOMAIN q_query[1].attr_args
    /\ AttrErrors(attr) # <<>>
    /\ OnlyMissingAttrArgs(AttrErrors(attr))

\* C1: with the fallback locale registered, a query for a language that has
\* no locale returns the Result the fallback locale gives for the same Query
C1_FallbackRouting ==
    (Served /\ fallback_lang \in DOMAIN locales /\ q_lang[1] \notin DOMAIN locales)
        => result[1] = LocaleQuery(locales[fallback_lang], q_query[1])

C1_Witness ==
    /\ Served /\ fallback_lang \in DOMAIN locales /\ q_lang[1] \notin DOMAIN locales
    /\ Cardinality(DOMAIN locales) = 2
    /\ IsOk(result[1])
    /\ result[1].val.value = "Buy now, <U+2068>Ann<U+2069>!"

\* C2: explicit attr_args for a declared attribute that lack a variable X of
\* its pattern make the query fail with an undefined-variable error for X
C2_ExplicitArgsMissingVariable ==
    (Served /\ IsSome(Looked))
        => \A attr \in DeclaredAttrs :
             attr.id \in DOMAIN q_query[1].attr_args
             => \A e \in Range(AttrErrors(attr)) :
                  e.kind = "Variable"
                  => IsErr(result[1]) /\ e \in Range(result[1].val)

\* C3: an attr_args entry for an attribute the message does not declare
\* makes the query fail with an attribute-not-found error for it
C3_UndeclaredAttributeReported ==
    (Served /\ IsSome(Looked))
        => \A a \in DOMAIN q_query[1].attr_args :
             a \notin DeclaredAttrIds
             => /\ IsErr(result[1])
                /\ RefMessage(q_query[1].id, Some(a)) \in Range(result[1].val)

\* C4: a declared attribute without explicit arguments whose formatting
\* reports only undefined-variable errors adds no error; when nothing else
\* fails the Result is Ok and the attribute's handle is there with value None
C4_DeferredAttribute ==
    (Served /\ IsSome(Looked))
        => \A attr \in DeclaredAttrs :
             IsDeferred(attr)
             => LET others ==
                      Range(MainErrors)
                      \cup UNION {GenuineAttrErrors(b) : b \in DeclaredAttrs \ {attr}}
                      \cup {RefMessage(q_query[1].id, Some(a)) :
                               a \in DOMAIN q_query[1].attr_args \ DeclaredAttrIds}
                IN /\ IsErr(result[1]) => Range(result[1].val) \subseteq others
                   /\ others = {}
                      => /\ IsOk(result[1])
                         /\ attr.id \in DOMAIN result[1].val.attrs
                         /\ result[1].val.attrs[attr.id].value = None

C4_Witness ==
    /\ Served /\ IsOk(result[1])
    /\ q_query[1].id = "btn"
    /\ DOMAIN q_query[1].attr_args = {}
    /\ DOMAIN result[1].val.attrs = {"idle", "label"}
    /\ result[1].val.attrs["label"].value = None
    /\ result[1].val.attrs["idle"].value = Some("Login")

\* C5: a declared attribute without explicit arguments whose formatting
\* reports an error other than an undefined variable makes the query fail
\* with that attribute's errors in the list
C5_GenuineAttributeErrorReported ==
    (Served /\ IsSome(Looked))
        => \A attr \in DeclaredAttrs :
             (attr.id \notin DOMAIN q_query[1].attr_args
              /\ ~OnlyMissingAttrArgs(AttrErrors(attr)))
             => /\ IsErr(result[1])
                /\ Range(AttrErrors(attr)) \subseteq Range(result[1].val)

\* C6: a message id that is absent from the answering locale's store gives
\* Err of exactly the message-not-found error for that id, whatever the
\* arguments of the Query
C6_MessageNotFound ==
    (Served /\ Looked = None)
        => result[1] = Err(<<RefMessage(q_query[1].id, None)>>)

C6_Witness ==
    /\ Served /\ Looked = None
    /\ q_query[1].id = "promo"
    /\ DOMAIN q_query[1].args = {"name"}
    /\ DOMAIN q_query[1].attr_args = {"label", "ghost"}
    /\ IsErr(result[1]) /\ Len(result[1].val) = 1

\* C7: errors of the main value and errors of an attribute formatted with
\* explicit arguments are returned together in one Err list
C7_ErrorsAccumulated ==
    (Served /\ IsSome(Looked) /\ MainErrors # <<>>)
        => \A attr \in DeclaredAttrs :
             (attr.id \in DOMAIN q_query[1].attr_args /\ AttrErrors(attr) # <<>>)
             => /\ IsErr(result[1])
                /\ Range(MainErrors) \cup Range(AttrErrors(attr)) \subseteq Range(result[1].val)

\* C8: the observer, when set, is invoked exactly once with the returned
\* error list by a query that returns Err and never by a query that returns
\* Ok; the Result is the one the answering locale gives, observer or not
C8_ObserverOnErrOnly ==
    Served
        => /\ (IsErr(result[1]) /\ IsSome(on_error)) => observed = <<result[1].val>>
           /\ IsOk(result[1]) => observed = <<>>
           /\ on_error = None => observed = <<>>
           /\ result[1] = LocaleQuery(Answering, q_query[1])

C8_Witness ==
    /\ Served /\ IsSome(on_error)
    /\ q_lang[1] \notin DOMAIN locales
    /\ IsErr(result[1])
    /\ observed = <<result[1].val>>

\* C9: no Locales::query panics because the fallback locale is missing, and
\* no query is answered while fallback_lang has no locale in the mapping
C9_FallbackAlwaysPresent ==
    /\ panic # "a fallback language should *always* exist and be present as a locale"
    /\ Served => fallback_lang \in DOMAIN locales

\* the attribute of a retained handle needs arguments
HandleNeedsArgs(h) ==
    LET m == GetMessage(h.bundle, h.entry_id) IN
    /\ IsSome(m) /\ IsSome(FindAttribute(m[1], h.attr_id))
    /\ FormatPattern(h.bundle, FindAttribute(m[1], h.attr_id)[1].value, None).errs # <<>>
\* what Locale::query stores for the handle's attribute when args are given
\* as its attr_args
DirectlyStored(h, args) ==
    ResolveAttr([bundle |-> h.bundle],
                [QueryNew(h.entry_id) EXCEPT !.attr_args = (h.attr_id :> args)],
                FindAttribute(GetMessage(h.bundle, h.entry_id)[1], h.attr_id)[1])
        .attr_cache.value

\* C10: on a fresh uncached handle of an attribute that needs arguments,
\* query(Some(args)) with sufficient args followed by query(None) both
\* return the string a direct Locale::query stores for these attr_args
C10_RoundTrip ==
    (/\ Len(handle_calls) = 2
     /\ handle_calls[1].cached = None
     /\ HandleNeedsArgs(handle[1])
     /\ IsSome(handle_calls[1].args)
     /\ IsOk(handle_calls[1].result)
     /\ handle_calls[2].args = None)
        => LET stored == DirectlyStored(handle[1], handle_calls[1].args[1])
           IN /\ handle_calls[1].result = Ok(stored[1])
              /\ handle_calls[2].result = Ok(stored[1])

\* C11: after AttrCache::query returns Ok(s) on a handle whose value was
\* None, the handle's value is Some(s) and every later AttrCache::query on
\* that handle returns Ok(s), whatever its arguments
C11_FilledOnFirstAccess ==
    \A i \in 1..Len(handle_calls) :
        (handle_calls[i].cached = None /\ IsOk(handle_calls[i].result))
            => /\ (IF i < Len(handle_calls) THEN handle_calls[i + 1].cached
                   ELSE handle[1].value) = Some(handle_calls[i].result.val)
               /\ \A j \in (i + 1)..Len(handle_calls) :
                      handle_calls[j].result = handle_calls[i].result

\* C12: AttrCache::query on a handle holding Some(s) returns Ok(s) for every
\* args, None or an argument map, and leaves the handle as it was
C12_CachedValueReturned ==
    [][(/\ IsSome(handle)
        /\ IsSome(handle[1].value)
        /\ Len(handle_calls') = Len(handle_calls) + 1)
           => /\ handle' = handle
              /\ handle_calls'[Len(handle_calls')].result = Ok(handle[1].value[1])]_vars

\* a cached handle of an attribute that needs arguments has answered a call
\* whose arguments do not satisfy the pattern, and a call without arguments
C12_Witness ==
    /\ Len(handle_calls) = 2
    /\ HandleNeedsArgs(handle[1])
    /\ IsSome(handle_calls[1].cached)
    /\ handle_calls[1].args = Some(("user" :> "Ann"))
    /\ handle_calls[1].result = Ok(handle_calls[1].cached[1])
    /\ handle_calls[2].args = None
    /\ handle_calls[2].result = Ok(handle_calls[1].cached[1])

\* C13: on an uncached handle whose message and attribute exist,
\* AttrCache::query(args) returns Err with every error of formatting the
\* attribute pattern with args when there is one, Ok(formatted string)
\* otherwise; query(None) on an attribute that needs $form returns
\* Err([undefined variable form])
C13_UncachedQueryFormats ==
    \A i \in 1..Len(handle_calls) :
        LET h == handle[1]
            m == GetMessage(h.bundle, h.entry_id)
        IN (/\ handle_calls[i].cached = None
            /\ IsSome(m)
            /\ IsSome(FindAttribute(m[1], h.attr_id)))
               => LET f == FormatPattern(h.bundle,
                                         FindAttribute(m[1], h.attr_id)[1].value,
                                         handle_calls[i].args)
                  IN /\ handle_calls[i].result =
                            IF f.errs # <<>> THEN Err(f.errs) ELSE Ok(f.out)
                     /\ (handle_calls[i].args = None /\ h.attr_id = "label")
                            => handle_calls[i].result = Err(<<RefVariable("form")>>)

\* an uncached handle of .label answered query(None) with the undefined
\* variable and then query(Some({form})) with the formatted string
C13_Witness ==
    /\ Len(handle_calls) = 2
    /\ handle[1].attr_id = "label"
    /\ handle_calls[1].cached = None
    /\ handle_calls[1].args = None
    /\ handle_calls[1].result = Err(<<RefVariable("form")>>)
    /\ handle_calls[2].cached = None
    /\ handle_calls[2].args = Some(("form" :> "signup"))
    /\ IsOk(handle_calls[2].result)

\* the errors the attributes of the looked-up message have to report, and
\* the attribute names the query asks for that the message does not declare
AllAttrErrors ==
    UNION {GenuineAttrErrors(b) : b \in DeclaredAttrs}
    \cup {RefMessage(q_query[1].id, Some(a)) :
             a \in DOMAIN q_query[1].attr_args \ DeclaredAttrIds}

\* C14: for a message that exists but has no value pattern the missing value
\* adds no error; the Result's value is the placeholder "<id>" built from
\* query.id, never the empty string, and every declared attribute is resolved
C14_PlaceholderValue ==
    (Served /\ IsSome(Looked) /\ Looked[1].value = None)
        => /\ IsErr(result[1]) => Range(result[1].val) \subseteq AllAttrErrors
           /\ AllAttrErrors = {} => IsOk(result[1])
           /\ IsOk(result[1])
              => /\ result[1].val.value = "<" \o q_query[1].id \o ">"
                 /\ result[1].val.value # ""
                 /\ DOMAIN result[1].val.attrs = DeclaredAttrIds
                 /\ \A a \in DeclaredAttrs :
                        result[1].val.attrs[a.id] =
                            ResolveAttr(Answering, q_query[1], a).attr_cache

\* btn (attributes only) was answered with the placeholder and its attributes
C14_Witness ==
    /\ Served /\ IsOk(result[1])
    /\ Looked[1].value = None
    /\ q_query[1].id = "btn"
    /\ result[1].val.value = "<btn>"
    /\ DOMAIN result[1].val.attrs = {"idle", "label"}
    /\ result[1].val.attrs["idle"].value = Some("Login")
    /\ "label" \in DOMAIN q_query[1].attr_args
    /\ IsSome(result[1].val.attrs["label"].value)

\* the string attribute attr formats to with the arguments the query gives it
AttrText(attr) ==
    FormatPattern(Answering.bundle, attr.value,
                  IF attr.id \in DOMAIN q_query[1].attr_args
                  THEN Some(q_query[1].attr_args[attr.id]) ELSE None).out

\* C15 as stated: whenever the query gives a declared attribute explicit
\* arguments that satisfy its pattern, the Result is Ok with the attribute's
\* value Some(formatted string) and the attributes that need no arguments
\* resolved to Some(their text)
C15_ExplicitArgsAlwaysOk ==
    (Served /\ IsSome(Looked))
        => \A attr \in DeclaredAttrs :
             (attr.id \in DOMAIN q_query[1].attr_args /\ AttrErrors(attr) = <<>>)
             => /\ IsOk(result[1])
                /\ result[1].val.attrs[attr.id].value = Some(AttrText(attr))
                /\ \A b \in DeclaredAttrs :
                       (b.id \notin DOMAIN q_query[1].attr_args /\ AttrErrors(b) = <<>>)
                       => result[1].val.attrs[b.id].value = Some(AttrText(b))

\* C15: when the query gives a declared attribute explicit arguments that
\* satisfy its pattern and nothing else fails (the main value and the other
\* attributes have no error to report), the Result is Ok; in every Ok Result
\* of such a query the attribute's value is Some(formatted string) and the
\* attributes that need no arguments are Some(their text)
C15_ExplicitArgsResolved ==
    (Served /\ IsSome(Looked))
        => \A attr \in DeclaredAttrs :
             (attr.id \in DOMAIN q_query[1].attr_args /\ AttrErrors(attr) = <<>>)
             => LET others ==
                      Range(MainErrors)
                      \cup UNION {GenuineAttrErrors(b) : b \in DeclaredAttrs \ {attr}}
                      \cup {RefMessage(q_query[1].id, Some(a)) :
                               a \in DOMAIN q_query[1].attr_args \ DeclaredAttrIds}
                IN /\ others = {} => IsOk(result[1])
                   /\ IsOk(result[1])
                      => /\ result[1].val.attrs[attr.id].value = Some(AttrText(attr))
                         /\ \A b \in DeclaredAttrs :
                                (/\ b.id \notin DOMAIN q_query[1].attr_args
                                 /\ AttrErrors(b) = <<>>)
                                => result[1].val.attrs[b.id].value = Some(AttrText(b))

\* promo was answered Ok with .label formatted from its explicit arguments
\* and .ref, which needs none, resolved in the same Message
C15_Witness ==
    /\ Served /\ IsOk(result[1])
    /\ q_query[1].id = "promo"
    /\ "label" \in DOMAIN q_query[1].attr_args
    /\ "ref" \notin DOMAIN q_query[1].attr_args
    /\ \E attr \in DeclaredAttrs :
           /\ attr.id = "label" /\ AttrErrors(attr) = <<>>
           /\ result[1].val.attrs["label"].value = Some(AttrText(attr))
    /\ \E b \in DeclaredAttrs :
           /\ b.id = "ref" /\ AttrErrors(b) = <<>>
           /\ result[1].val.attrs["ref"].value = Some(AttrText(b))

\* the normalized forms of the tags locales are added for
TagEnUS == [language |-> "en", region |-> <<"US">>]
TagHrHR == [language |-> "hr", region |-> <<"HR">>]

\* C16: the mapping is keyed by normalized tags only, each Locale under the
\* tag of its own bundle, so no two entries denote the same normalized tag;
\* a query whose tag was written "hr-hr" is answered by the Locale added for
\* hr-HR, not by the fallback locale
C16_NormalizedLookup ==
    /\ DOMAIN locales \subseteq {TagEnUS, TagHrHR}
    /\ \A l \in DOMAIN locales : locales[l].bundle.locales = <<l>>
    /\ (/\ Served
        /\ q_lang[1] = ParseLangid(StrHrLower).val
        /\ TagHrHR \in DOMAIN locales)
           => result[1] = LocaleQuery(locales[TagHrHR], q_query[1])

\* a query for the tag written "hr-hr" was answered from the hr-HR locale
\* with a Message the fallback locale en-US does not give
C16_Witness ==
    /\ Served /\ IsOk(result[1])
    /\ q_lang[1] = ParseLangid(StrHrLower).val
    /\ q_lang[1] \in DOMAIN locales
    /\ fallback_lang = TagEnUS
    /\ TagEnUS \in DOMAIN locales
    /\ result[1] # LocaleQuery(locales[TagEnUS], q_query[1])
    /\ result[1].val.value = "Prijava"

\* some id is defined by two entries of the resources vector
DefinedTwice(resources) ==
    \E i, j \in 1..Len(resources) :
        \E m \in 1..Len(resources[i]), n \in 1..Len(resources[j]) :
            /\ <<i, m>> # <<j, n>>
            /\ resources[i][m].kind = resources[j][n].kind
            /\ resources[i][m].id = resources[j][n].id

\* C17: after add_locale(L, R) has returned the mapping holds exactly one
\* entry for L, the Locale built from R alone whatever L held before, no
\* other key was added and the entries of all other tags are as they were
C17_AddLocaleReplaces ==
    (IsSome(call) /\ panic = "none")
        => LET lang_id == ParseLangid(call[1].lang_str).val
           IN /\ DOMAIN locales = DOMAIN call[1].before \cup {lang_id}
              /\ locales[lang_id] = LocaleNew(lang_id, call[1].resources).val
              /\ \A other \in DOMAIN call[1].before \ {lang_id} :
                     locales[other] = call[1].before[other]

\* add_locale has replaced a Locale that defined promo by one that does not,
\* next to the entry of another tag
C17_Witness ==
    /\ IsSome(call) /\ panic = "none"
    /\ Cardinality(DOMAIN locales) = 2
    /\ LET lang_id == ParseLangid(call[1].lang_str).val
       IN /\ lang_id \in DOMAIN call[1].before
          /\ IsSome(GetMessage(call[1].before[lang_id].bundle, "promo"))
          /\ GetMessage(locales[lang_id].bundle, "promo") = None

\* C18: add_locale panics when lang_str is not a valid language identifier
\* or when the resources define the same message or term id twice, and the
\* mapping is then as it was before the call
C18_AddLocalePanics ==
    (/\ IsSome(call)
     /\ IsErr(ParseLangid(call[1].lang_str)) \/ DefinedTwice(call[1].resources))
        => /\ panic # "none"
           /\ locales = call[1].before

\* add_locale panicked on a resource overriding another one while the
\* mapping already held a locale
C18_Witness ==
    /\ IsSome(call)
    /\ ParseLangid(call[1].lang_str) = Ok(TagHrHR)
    /\ DefinedTwice(call[1].resources)
    /\ panic = "resource should never be overriding another"
    /\ call[1].before # EmptyLocales
    /\ locales = call[1].before

\* C19: Locales::query leaves the mapping, fallback_lang and the observer as
\* they are, and every reader's query, whatever steps of the other readers
\* run in between, has the Result and the observer calls the same query has
\* on the registry when it runs alone
C19_QueriesArePureReads ==
    [][/\ UNCHANGED <<locales, fallback_lang, on_error>>
       /\ \A t \in Readers :
            readers'[t].pc \in {"resolved", "done"}
            => LET alone == LocaleQuery(
                       SelectLocale(locales, fallback_lang, readers'[t].lang[1])[1],
                       readers'[t].query[1])
               IN /\ readers'[t].result = Some(alone)
                  /\ readers'[t].pc = "done"
                     => readers'[t].observed = ObserverCalls(on_error, alone)]_vars

\* two calls are in flight at once, one resolved to Ok and one to Err, and
\* the observer is installed
C19_Witness ==
    /\ IsSome(on_error)
    /\ readers[1].pc = "resolved" /\ IsOk(readers[1].result[1])
    /\ readers[2].pc = "resolved" /\ IsErr(readers[2].result[1])

\* C20: when the requested language has a locale that does not define the
\* message id and the fallback locale is present, a Query built with
\* with_fallback(true) is answered by the fallback locale's Locale::query,
\* a Query with with_fallback(false) by the requested locale's own
C20_PerQueryFallback ==
    (/\ Served
     /\ q_lang[1] \in DOMAIN locales
     /\ GetMessage(locales[q_lang[1]].bundle, q_query[1].id) = None
     /\ fallback_lang \in DOMAIN locales)
        => result[1] =
              IF q_query[1].with_fallback
              THEN LocaleQuery(locales[fallback_lang], q_query[1])
              ELSE LocaleQuery(locales[q_lang[1]], q_query[1])

\* C21: two AttrCache values compare equal exactly when their entry_id and
\* attr_id are equal; the comparison is reflexive, symmetric and transitive,
\* and a handle equals itself whatever its cached value becomes
C21_EqualityByIds ==
    IsSome(ret)
        => LET self == arg[1][1]
               other == arg[1][2]
           IN /\ ret[1] = (self.entry_id = other.entry_id /\ self.attr_id = other.attr_id)
              /\ AttrCacheEq(self, self)
              /\ AttrCacheEq(other, self) = ret[1]
              /\ \A third \in EqHandles :
                     (ret[1] /\ AttrCacheEq(other, third)) => AttrCacheEq(self, third)
              /\ \A value \in EqValues :
                     AttrCacheEq(self, [self EXCEPT !.value = value])

\* two handles of the same attribute with different cached values and
\* different stores compared equal
C21_Witness ==
    /\ IsSome(ret) /\ ret[1]
    /\ arg[1][1].value # arg[1][2].value
    /\ arg[1][1].bundle # arg[1][2].bundle

C23_AttrMacro ==
    op = "attr"
        => LET attr == arg[1].attr
               found == attr \in DOMAIN msg[1].attrs
               queried == AttrCacheQuery(msg[1].attrs[attr], arg[1].args).result
           IN IF found /\ IsOk(queried)
              THEN /\ ret[1].value = queried.val
                   /\ ret[1].call_on_error = <<>>
                   /\ observed = <<>>
              ELSE LET errs == IF found THEN queried.val
                               ELSE <<RefMessage(msg[1].id, Some(attr))>>
                   IN /\ ret[1].value = attr
                      /\ ret[1].call_on_error = <<errs>>
                      /\ observed = IF IsSome(on_error) THEN <<errs>> ELSE <<>>

\* attr! asked for an attribute the Message does not have: the attribute id
\* came back and the observer saw the missing-attribute error
C23_Witness ==
    /\ op = "attr"
    /\ IsOk(LocaleQuery(SelectLocale(locales, fallback_lang, q_lang[1])[1], q_query[1]))
    /\ arg[1].attr = "ghost"
    /\ ret[1].value = "ghost"
    /\ observed = <<<<RefMessage(msg[1].id, Some("ghost"))>>>>

\* C24: in every Message returned as Ok an attribute handle holds Some(s)
\* only if formatting that attribute, with its explicit attr_args when
\* supplied and without arguments otherwise, reported no error
C24_SomeOnlyWithoutErrors ==
    (Served /\ IsSome(Looked) /\ IsOk(result[1]))
        => \A attr \in DeclaredAttrs :
             (/\ attr.id \in DOMAIN result[1].val.attrs
              /\ IsSome(result[1].val.attrs[attr.id].value))
             => AttrErrors(attr) = <<>>

\* C25: in every Message returned as Ok, id is query.id, the keys of attrs
\* are exactly the attributes the message declares, and the handle under key
\* a carries entry_id = query.id, attr_id = a and the store of the Locale
\* that answered
C25_MessageShape ==
    (Served /\ IsSome(Looked) /\ IsOk(result[1]))
        => /\ result[1].val.id = q_query[1].id
           /\ DOMAIN result[1].val.attrs = DeclaredAttrIds
           /\ \A a \in DOMAIN result[1].val.attrs :
                  /\ result[1].val.attrs[a].entry_id = q_query[1].id
                  /\ result[1].val.attrs[a].attr_id = a
                  /\ result[1].val.attrs[a].bundle = Answering.bundle

\* promo was answered Ok from the hr-HR registry's fallback with both of its
\* attributes, one resolved and one deferred, although the query names
\* an attribute promo does not declare
C25_Witness ==
    /\ Served /\ IsOk(result[1])
    /\ q_query[1].id = "promo"
    /\ DOMAIN q_query[1].attr_args = {"ghost"}
    /\ DOMAIN result[1].val.attrs = {"ref", "label"}
    /\ result[1].val.attrs["label"].value = None
    /\ IsSome(result[1].val.attrs["ref"].value)

\* C26: an AttrCache::query that returns Err leaves the handle as it was;
\* when query(None) has failed on an uncached handle, the following
\* query(Some(args)) with args that satisfy the pattern returns
\* Ok(format(pattern, args))
C26_FailedQueryKeepsHandle ==
    [][(IsSome(handle) /\ Len(handle_calls') = Len(handle_calls) + 1)
          => LET n == Len(handle_calls)
                 last == handle_calls'[n + 1]
                 pattern == FindAttribute(
                                GetMessage(handle[1].bundle, handle[1].entry_id)[1],
                                handle[1].attr_id)[1].value
             IN /\ IsErr(last.result) => handle' = handle
                /\ (/\ n >= 1
                    /\ handle_calls[n].cached = None
                    /\ handle_calls[n].args = None
                    /\ IsErr(handle_calls[n].result)
                    /\ IsSome(last.args)
                    /\ FormatPattern(handle[1].bundle, pattern, last.args).errs = <<>>)
                       => last.result =
                              Ok(FormatPattern(handle[1].bundle, pattern, last.args).out)]_vars

\* the handle of btn.label, still uncached, failed on query(None) and then
\* answered query(Some({form})) with the formatted string
C26_Witness ==
    /\ Len(handle_calls) = 2
    /\ handle[1].entry_id = "btn" /\ handle[1].attr_id = "label"
    /\ handle[1].value = None
    /\ handle_calls[1].args = None
    /\ IsErr(handle_calls[1].result)
    /\ handle_calls[2].args = Some(("form" :> "signup"))
    /\ handle_calls[2].result =
           Ok(FormatPattern(handle[1].bundle,
                            FindAttribute(GetMessage(handle[1].bundle, "btn")[1],
                                          "label")[1].value,
                            Some(("form" :> "signup"))).out)

ReplacedUnderHandle ==
    /\ IsSome(call) /\ IsSome(handle) /\ panic = "none"
    /\ "held" \in DOMAIN call[1]
    /\ LET lang_id == ParseLangid(call[1].lang_str).val IN
       /\ lang_id \in DOMAIN call[1].before
       /\ call[1].before[lang_id].bundle = call[1].held.bundle
       /\ locales[lang_id].bundle # call[1].held.bundle

\* what the handle would answer if it resolved against the store of the
\* locale now registered for the replaced language
AgainstNewStore(args) ==
    AttrCacheQuery([call[1].held EXCEPT
                       !.bundle = locales[ParseLangid(call[1].lang_str).val].bundle],
                   args).result

\* C28: after add_locale has replaced the locale a handle was taken from,
\* the handle is still bound to the old store: every later AttrCache::query
\* on it returns what the old store gives, which is what the same call
\* returned before the replacement, and not what the new store would give
\* where the two differ
C28_HandleKeepsItsStore ==
    ReplacedUnderHandle
        => /\ handle[1] = call[1].held
           /\ \A i \in (call[1].at + 1)..Len(handle_calls) :
                 /\ handle_calls[i].result =
                        AttrCacheQuery(call[1].held, handle_calls[i].args).result
                 /\ \A j \in 1..call[1].at :
                        handle_calls[j].args = handle_calls[i].args
                            => handle_calls[i].result = handle_calls[j].result
                 /\ AgainstNewStore(handle_calls[i].args)
                        # AttrCacheQuery(call[1].held, handle_calls[i].args).result
                            => handle_calls[i].result
                                   # AgainstNewStore(handle_calls[i].args)

\* the same query(Some({form})) was made on a handle of btn.label before and
\* after the replacement of its locale and returned the same string both
\* times, where the new store would have given another one
C28_Witness ==
    /\ ReplacedUnderHandle
    /\ Len(handle_calls) = 2 /\ call[1].at = 1
    /\ handle[1].attr_id = "label"
    /\ handle_calls[1].args = Some(("form" :> "signup"))
    /\ handle_calls[2].args = Some(("form" :> "signup"))
    /\ IsOk(handle_calls[2].result)
    /\ handle_calls[2].result = handle_calls[1].result
    /\ IsOk(AgainstNewStore(handle_calls[2].args))
    /\ AgainstNewStore(handle_calls[2].args) # handle_calls[2].result

\* the keys a locale directory defines over all of its parsed files
LocaleKeys(dir, locale) ==
    UNION {FileKeySet(dir[locale][f][1]) :
              f \in {g \in FileNames : Parsed(dir, locale, g)}}

\* some locale lacks a key that another locale defines
InconsistentKeys(dir) ==
    \E l1 \in BuildLocales, l2 \in BuildLocales :
        LocaleKeys(dir, l1) \ LocaleKeys(dir, l2) # {}

\* C29: with check_keys = true, whenever some locale lacks a key that another
\* locale defines, also when it lacks the whole file that defines the key,
\* load! emits a compile error and builds no registry
C29_CheckKeysConsistent ==
    (IsSome(ret) /\ IsSome(arg) /\ "check_keys" \in DOMAIN arg[1]
       /\ arg[1].check_keys /\ InconsistentKeys(arg[1].dir))
        => ret[1].compile_errors # {} /\ ret[1].add_locale = {}

\* the normalized tag of an identifier: the language alone, or the language,
\* "-" and the region
NormalizedId(value) ==
    IF IsSome(value.region)
    THEN ToLowercase(value.language) \o <<"-">> \o ToUppercase(value.region[1])
    ELSE ToLowercase(value.language)

\* C30: Lang::from gives id = the lower-cased language alone for an
\* identifier without region and the lower-cased language, "-" and the
\* upper-cased region for one with a region, whatever script it carries;
\* flag is the flag of that region; and normalizing the identifier that the
\* id spells gives the same id
C30_LangNormalized ==
    (IsSome(ret) /\ IsSome(arg) /\ "language" \in DOMAIN arg[1])
        => /\ ret[1].id = NormalizedId(arg[1])
           /\ ret[1].flag = (IF IsSome(arg[1].region)
                                /\ IsSome(LangidToFlag(arg[1].region[1]))
                             THEN LangidToFlag(arg[1].region[1])[1] ELSE <<>>)
           /\ LangFrom([arg[1] EXCEPT !.script = None]).id = ret[1].id

====
